---- MODULE Spec2Model ----
(***************************************************************************)
(* A model of the NVIDIA virtual-GPU device plugin server (server.go):     *)
(* the Allocate handler driving the Binding Ledger (VDeviceController),    *)
(* the container response it builds, the Preferred-Allocation Engine       *)
(* (GetPreferredAllocation), the crash-restart supervisor of the serve     *)
(* loop (Serve), the lifecycle (Start, Stop, cleanup) and the health       *)
(* stream (ListAndWatch).                                                  *)
(***************************************************************************)
EXTENDS Integers, Sequences, FiniteSets, TLC

(***************************************************************************)
(* Bounds of the model.                                                    *)
(***************************************************************************)
\* number of physical devices the ResourceManager enumerates
NumDevices == 1
\* largest number of device IDs one container request asks for
MaxRequest == 2
\* number of serve-call failures after which the model stops injecting more
MaxFailures == 8
\* number of Allocate calls in flight at once in the concurrent specification
NumCallers == 2
\* number of ListAndWatch streams a session serves
NumSubscribers == 2

(***************************************************************************)
(* Program constants.                                                      *)
(***************************************************************************)
\* deviceSplitCountFlag: the number of virtual devices cut from one device
deviceSplitCountFlag == 2
\* "if restartCount > 5" of the supervisor
CrashLimit == 5
\* "if timeSinceLastCrash > 3600" of the supervisor
HourSeconds == 3600

VARIABLES
    migStrategy,        \* m.migStrategy
    cachedDevices,      \* m.cachedDevices: sequence of physical devices
    vDevices,           \* m.vDevices: sequence of virtual devices
    vDeviceController,  \* m.vDeviceController != nil
    ledger,             \* the Binding Ledger: request key -> granted IDs
    call,               \* per Allocate caller: the handler's locals and position
    observe,            \* whether a call records the ledger it found at entry
    prefReq,            \* last GetPreferredAllocation request
    prefOut,            \* last GetPreferredAllocation outcome
    restartCount,       \* supervisor: restartCount
    lastCrashTime,      \* supervisor: lastCrashTime
    now,                \* the wall clock, in seconds
    supervisor,         \* supervisor position: "none", "serving", "exited", "fatal"
    gaps,               \* history: seconds between consecutive serve failures
    deviceListStrategyFlag,  \* deviceListStrategyFlag: "envvar" or "volume-mounts"
    deviceIDStrategyFlag,    \* deviceIDStrategyFlag: "uuid" or "index"
    allocatePolicy,     \* m.allocatePolicy != nil
    enableLegacyPreferredFlag,  \* enableLegacyPreferredFlag
    server,             \* m.server != nil
    grpc,               \* the server object of m.server: "none", "created", "serving", "stopped"
    socketFile,         \* whether the file m.socket exists
    health,             \* m.health != nil
    stop,               \* m.stop != nil
    stopChan,           \* the channel initialize made for m.stop: "none", "open", "closed"
    healthProducer,     \* whether this Start launched CheckHealth
    lifePc,             \* position of the Start or Stop call in progress, "idle" if none
    op,                 \* the lifecycle call in progress or last returned: "none", "Start", "Stop"
    err,                \* the error the call in progress will return
    result,             \* what the last call returned: "none" while one is in progress
    steps,              \* history: the steps this Start has taken
    registerResult,     \* history: the outcome of this Start's registration
    advertised,         \* history: the capability Register sent to the kubelet
    options,            \* history: the capability GetDevicePluginOptions last reported
    vHealth,            \* the Health field of each virtual device (VDevice.Device.Health)
    sub                 \* per ListAndWatch stream: the handler's locals, position and history

sessionVars == <<migStrategy, cachedDevices, vDevices, vDeviceController>>
allocVars == <<ledger, call, observe>>
prefVars == <<prefReq, prefOut>>
serveVars == <<restartCount, lastCrashTime, now, supervisor, gaps>>
flagVars == <<deviceListStrategyFlag, deviceIDStrategyFlag>>
configVars == <<allocatePolicy, enableLegacyPreferredFlag>>
streamVars == <<vHealth, sub>>
lifeVars == <<server, grpc, socketFile, health, stop, stopChan, healthProducer, lifePc, op, err,
              result, steps, registerResult, advertised, options>>
vars == <<migStrategy, cachedDevices, vDevices, vDeviceController, ledger, call, observe,
          prefReq, prefOut, restartCount, lastCrashTime, now, supervisor, gaps,
          deviceListStrategyFlag, deviceIDStrategyFlag, allocatePolicy,
          enableLegacyPreferredFlag, server, grpc, socketFile, health, stop, stopChan,
          healthProducer, lifePc, op, err, result, steps, registerResult, advertised, options,
          vHealth, sub>>

(***************************************************************************)
(* Sequences helpers.                                                      *)
(***************************************************************************)
Range(s) == {s[i] : i \in 1..Len(s)}

NoDuplicates(s) == \A i, j \in 1..Len(s) : i # j => s[i] # s[j]

Min(S) == CHOOSE x \in S : \A y \in S : x <= y

RECURSIVE SortedSeq(_)
SortedSeq(S) == IF S = {} THEN <<>> ELSE <<Min(S)>> \o SortedSeq(S \ {Min(S)})

\* all duplicate-free sequences over S of length at most n
RECURSIVE DistinctSeqs(_, _)
DistinctSeqs(S, n) ==
    IF n = 0 THEN {<<>>}
    ELSE {<<>>} \cup {<<x>> \o t : x \in S, t \in DistinctSeqs(S, n - 1)}

InjectiveSeqs(S, n) == {s \in DistinctSeqs(S, n) : NoDuplicates(s)}

Reverse(s) == [i \in 1..Len(s) |-> s[Len(s) + 1 - i]]

(***************************************************************************)
(* Devices.  A physical device g has the identifier 100*g and the index    *)
(* g-1; its virtual devices have the identifiers 100*g+1, 100*g+2, ...     *)
(***************************************************************************)
Devices == [g \in 1..NumDevices |-> [ID |-> 100 * g, Index |-> g - 1, Health |-> "Healthy"]]

RECURSIVE Device2VDevice(_)
Device2VDevice(devices) ==
    IF devices = <<>> THEN <<>>
    ELSE [s \in 1..deviceSplitCountFlag |-> [ID |-> Head(devices).ID + s, dev |-> Head(devices).ID]]
         \o Device2VDevice(Tail(devices))

\* an identifier no virtual device of the session has (a stale or physical one)
UnknownID == 100 * (NumDevices + 1)

VDeviceIDs(vdevs) == [i \in 1..Len(vdevs) |-> vdevs[i].ID]

(***************************************************************************)
(* Resolution of identifiers (vdevice.go) and the allocator's device set.  *)
(***************************************************************************)
\* VDevicesByIDs: the records of the given IDs, in the order of the IDs;
\* "unknown device" when an ID does not resolve
KnownVDevice(vdevs, id) == \E i \in 1..Len(vdevs) : vdevs[i].ID = id

VDeviceByID(vdevs, id) == vdevs[CHOOSE i \in 1..Len(vdevs) : vdevs[i].ID = id]

VDevicesByIDsFails(vdevs, ids) == \E i \in 1..Len(ids) : ~KnownVDevice(vdevs, ids[i])

VDevicesByIDs(vdevs, ids) == [i \in 1..Len(ids) |-> VDeviceByID(vdevs, ids[i])]

\* UniqueDeviceIDs: the physical identifiers under the given virtual
\* devices, each once, in the order of first appearance
RECURSIVE UniqueDeviceIDs(_)
UniqueDeviceIDs(vdevs) ==
    IF vdevs = <<>> THEN <<>>
    ELSE LET front == UniqueDeviceIDs(SubSeq(vdevs, 1, Len(vdevs) - 1))
             last == vdevs[Len(vdevs)].dev
         IN  IF last \in Range(front) THEN front ELSE Append(front, last)

\* gpuallocator.NewDevicesFrom: one allocator device per UUID, in order
NewDevicesFrom(uuids) == [i \in 1..Len(uuids) |-> [UUID |-> uuids[i]]]

\* gpuallocator.Policy.Allocate: a black box choosing devices among the
\* available ones: any duplicate-free selection of at most size devices
PolicyAllocate(available, required, size) ==
    InjectiveSeqs(Range(available), IF size < Len(available) THEN size ELSE Len(available))

(***************************************************************************)
(* GetPreferredAllocation, for one container request.                      *)
(***************************************************************************)
\* line 274: preferred allocation is not offered under the mixed strategy
PreferredUnsupportedNever(strategy) == FALSE

PreferredUnsupported(strategy) == strategy = "mixed"

\* lines 298-300: the policy's silence falls back to the first devices
PolicyFallback(allocated, available, size) ==
    IF Len(allocated) = 0 /\ Len(available) >= size
    THEN SubSeq(available, 1, size)
    ELSE allocated

\* lines 304-309: the first available virtual device on the given device
FirstVDeviceOn(availableVDev, device) ==
    LET hits == {i \in 1..Len(availableVDev) : availableVDev[i].dev = device.UUID}
    IN  IF hits = {} THEN <<>> ELSE <<availableVDev[Min(hits)].ID>>

\* lines 302-310: map each allocated device back to one virtual device ID
RECURSIVE MapBack(_, _)
MapBack(allocated, availableVDev) ==
    IF allocated = <<>> THEN <<>>
    ELSE FirstVDeviceOn(availableVDev, Head(allocated)) \o MapBack(Tail(allocated), availableVDev)

\* lines 279-283: the allocator devices under the available IDs
AvailableDevices(vdevs, ids) == NewDevicesFrom(UniqueDeviceIDs(VDevicesByIDs(vdevs, ids)))

\* lines 297-314: the device IDs of one container response, given the
\* policy's selection
ContainerDeviceIDs(vdevs, req, allocated) ==
    MapBack(PolicyFallback(allocated, AvailableDevices(vdevs, req.AvailableDeviceIDs), req.AllocationSize),
            VDevicesByIDs(vdevs, req.AvailableDeviceIDs))

(***************************************************************************)
(* The Binding Ledger (VDeviceController): request key -> granted IDs.     *)
(***************************************************************************)
Bound(l) == UNION {l[k] : k \in DOMAIN l}

\* available(): the controller's device IDs no entry holds, in their order
Available(ids, l) == SelectSeq(ids, LAMBDA id : id \notin Bound(l))

\* releaseByRequest(key): drop the entry of the key, if any
ReleaseByRequest(l, key) == [k \in DOMAIN l \ {key} |-> l[k]]

\* acquire(key, granted): record the set of granted IDs under the key
Acquire(l, key, granted) == [k \in DOMAIN l \cup {key} |-> IF k = key THEN Range(granted) ELSE l[k]]

\* updateFromCheckpoint(): the entries the kubelet's checkpoint no longer
\* holds are released; any subset of the entries may be such
UpdateFromCheckpoint(l) == {[k \in D |-> l[k]] : D \in SUBSET DOMAIN l}

(***************************************************************************)
(* The container response (lines 464-475, 338-348).  An identifier list    *)
(* joined with commas is kept as the list of its parts, a path joined from *)
(* root and name as the pair of the two.                                   *)
(***************************************************************************)
DeviceListStrategies == {"envvar", "volume-mounts"}

DeviceIDStrategies == {"uuid", "index"}

\* lines 57-58
deviceListAsVolumeMountsHostPath == "/dev/null"

deviceListAsVolumeMountsContainerPathRoot == "/var/run/nvidia-container-devices"

\* lines 556-563
deviceExists(cached, id) == \E i \in 1..Len(cached) : cached[i].ID = id

\* lines 573-577, inner loop: the index of d once for each uuid equal to d.ID
RECURSIVE IndexPerMatch(_, _)
IndexPerMatch(d, uuids) ==
    IF uuids = <<>> THEN <<>>
    ELSE (IF d.ID = Head(uuids) THEN <<d.Index>> ELSE <<>>) \o IndexPerMatch(d, Tail(uuids))

\* lines 572-578, outer loop: the cached devices in the order of the cache
RECURSIVE IndexesInCacheOrder(_, _)
IndexesInCacheOrder(cached, uuids) ==
    IF cached = <<>> THEN <<>>
    ELSE IndexPerMatch(Head(cached), uuids) \o IndexesInCacheOrder(Tail(cached), uuids)

\* lines 565-581
deviceIDsFromUUIDsAsGiven(strategy, cached, uuids) == uuids

deviceIDsFromUUIDs(strategy, cached, uuids) ==
    IF strategy = "uuid" THEN uuids
    ELSE IF strategy = "index" THEN IndexesInCacheOrder(cached, uuids)
    ELSE <<>>

\* lines 598-602: the value of the variable m.deviceListEnvvar
apiEnvs(deviceIDs) == deviceIDs

\* lines 604-616
apiMounts(deviceIDs) ==
    [i \in 1..Len(deviceIDs) |->
        [HostPath |-> deviceListAsVolumeMountsHostPath,
         ContainerPath |-> <<deviceListAsVolumeMountsContainerPathRoot, deviceIDs[i]>>]]

NoResponse == [Envs |-> <<>>, Mounts |-> <<>>]

\* lines 464-475 (Allocate) and 338-348 (MIGAllocate): the device-list part
\* of the response for the given physical identifiers
ContainerResponseMountsUUIDs(listStrategy, idStrategy, cached, uuids) ==
    LET deviceIDs == deviceIDsFromUUIDs(idStrategy, cached, uuids)
    IN  [Envs |-> IF listStrategy = "envvar" THEN apiEnvs(deviceIDs)
                  ELSE IF listStrategy = "volume-mounts"
                       THEN apiEnvs(<<deviceListAsVolumeMountsContainerPathRoot>>)
                       ELSE <<>>,
         Mounts |-> IF listStrategy = "volume-mounts" THEN apiMounts(uuids) ELSE <<>>]

ContainerResponse(listStrategy, idStrategy, cached, uuids) ==
    LET deviceIDs == deviceIDsFromUUIDs(idStrategy, cached, uuids)
    IN  [Envs |-> IF listStrategy = "envvar" THEN apiEnvs(deviceIDs)
                  ELSE IF listStrategy = "volume-mounts"
                       THEN apiEnvs(<<deviceListAsVolumeMountsContainerPathRoot>>)
                       ELSE <<>>,
         Mounts |-> IF listStrategy = "volume-mounts" THEN apiMounts(deviceIDs) ELSE <<>>]

(***************************************************************************)
(* Allocate, virtualized mode with a Binding Ledger.  Each ledger          *)
(* operation is one atomic step; the steps of one call interleave with     *)
(* those of the other callers.                                             *)
(***************************************************************************)
Callers == 1..NumCallers

\* the IDs a request may list: the session's virtual devices and one
\* identifier the session does not know
ListedIDs == Range(VDeviceIDs(Device2VDevice(Devices))) \cup {UnknownID}

\* the device IDs a container request may name: up to MaxRequest of the
\* session's virtual devices, or one identifier the session does not know
Requests ==
    {SortedSeq(S) : S \in {T \in SUBSET Range(VDeviceIDs(Device2VDevice(Devices))) :
                              Cardinality(T) \in 1..MaxRequest}}
    \cup {<<UnknownID>>}

\* the locals of a call: pc, req (req.DevicesIDs), availableIds and
\* reqDeviceIDs are the handler's; err is what it returned; repeat, count0
\* and entry are history: whether every request key of the call was bound
\* when the call began and the reconciliation released nothing, the number
\* of IDs bound then, and (when observed) the ledger after reconciliation;
\* reconciled and ops are history too: whether the call has reconciled the
\* ledger, and the ledger operations done for the current container request;
\* response is the response built for the current container request
IdleCall ==
    [pc |-> "idle", req |-> <<>>, availableIds |-> <<>>, reqDeviceIDs |-> <<>>,
     err |-> "nil", repeat |-> FALSE, count0 |-> 0, entry |-> <<>>,
     reconciled |-> FALSE, ops |-> <<>>, response |-> NoResponse]

\* lines 450-455: the engine's answer is used when it has the requested
\* size, the first available IDs otherwise
ChooseGrantedAlwaysPreferred(req, preferred, availableIds) == preferred

ChooseGrantedUnmapped(req, preferred, availableIds) == req

ChooseGranted(req, preferred, availableIds) ==
    IF Len(preferred) = Len(req) THEN preferred ELSE SubSeq(availableIds, 1, Len(req))

\* line 362: under the mixed strategy Allocate hands over to MIGAllocate
AllocateIsMIG(strategy) == strategy = "mixed"

\* line 437
NotEnoughDevices(availableIds, req) == Len(availableIds) < Len(req)

\* a return of the handler: its locals are gone, its error is kept
Return(c, error) ==
    call' = [call EXCEPT ![c] = [IdleCall EXCEPT !.pc = "done", !.err = error,
                                                 !.req = call[c].req,
                                                 !.repeat = call[c].repeat,
                                                 !.count0 = call[c].count0,
                                                 !.entry = call[c].entry]]

\* lines 361-364, 407-414: entry and reconciliation with the kubelet's
\* checkpoint
AllocateBegin(c) ==
    /\ call[c].pc \in {"idle", "done"}
    /\ ~AllocateIsMIG(migStrategy)
    /\ vDeviceController
    /\ \E l \in UpdateFromCheckpoint(ledger) :
         /\ ledger' = l
         /\ call' = [call EXCEPT ![c] =
                [IdleCall EXCEPT !.pc = "loop", !.reconciled = TRUE,
                                 !.repeat = (l = ledger),
                                 !.count0 = Cardinality(Bound(l)),
                                 !.entry = IF observe THEN l ELSE <<>>]]
    /\ UNCHANGED <<observe, sessionVars, flagVars, configVars, streamVars, lifeVars, prefVars, serveVars>>

\* lines 410-412: the reconciliation fails, the call returns its error
AllocateCheckpointError(c) ==
    /\ call[c].pc \in {"idle", "done"}
    /\ ~AllocateIsMIG(migStrategy)
    /\ vDeviceController
    /\ call' = [call EXCEPT ![c] = [IdleCall EXCEPT !.pc = "done", !.err = "checkpoint",
                                                    !.count0 = Cardinality(Bound(ledger)),
                                                    !.entry = IF observe THEN ledger ELSE <<>>]]
    /\ UNCHANGED <<ledger, observe, sessionVars, flagVars, configVars, streamVars, lifeVars, prefVars, serveVars>>

AllocateReleaseSkipped(c) ==
    /\ call[c].pc = "release"
    /\ call' = [call EXCEPT ![c].pc = "available", ![c].ops = Append(@, "release")]
    /\ UNCHANGED <<ledger, observe, sessionVars, flagVars, configVars, streamVars, lifeVars, prefVars, serveVars>>

\* line 434
AllocateRelease(c) ==
    /\ call[c].pc = "release"
    /\ ledger' = ReleaseByRequest(ledger, call[c].req)
    /\ call' = [call EXCEPT ![c].pc = "available", ![c].ops = Append(@, "release")]
    /\ UNCHANGED <<observe, sessionVars, flagVars, configVars, streamVars, lifeVars, prefVars, serveVars>>

\* lines 436-439
AllocateAvailable(c) ==
    /\ call[c].pc = "available"
    /\ LET availableIds == Available(VDeviceIDs(vDevices), ledger)
       IN  IF NotEnoughDevices(availableIds, call[c].req)
           THEN Return(c, "no enough devices")
           ELSE call' = [call EXCEPT ![c].pc = "prefer", ![c].availableIds = availableIds,
                                     ![c].ops = Append(@, "available")]
    /\ UNCHANGED <<ledger, observe, sessionVars, flagVars, configVars, streamVars, lifeVars, prefVars, serveVars>>

\* lines 440-456: the preferred allocation over the available IDs as read,
\* the choice of the granted IDs, the first acquire
AllocateAcquire(c) ==
    /\ call[c].pc = "prefer"
    /\ LET preferReq == [AllocationSize |-> Len(call[c].req),
                         AvailableDeviceIDs |-> call[c].availableIds,
                         MustIncludeDeviceIDs |-> <<>>]
       IN  IF VDevicesByIDsFails(vDevices, preferReq.AvailableDeviceIDs)
           THEN Return(c, "unknown device") /\ UNCHANGED ledger
           ELSE \E allocated \in PolicyAllocate(AvailableDevices(vDevices, preferReq.AvailableDeviceIDs),
                                                <<>>, preferReq.AllocationSize) :
                  LET reqDeviceIDs == ChooseGranted(call[c].req,
                                                    ContainerDeviceIDs(vDevices, preferReq, allocated),
                                                    call[c].availableIds)
                  IN  /\ ledger' = Acquire(ledger, call[c].req, reqDeviceIDs)
                      /\ call' = [call EXCEPT ![c].pc = "respond", ![c].reqDeviceIDs = reqDeviceIDs,
                                              ![c].ops = Append(@, "acquire")]
    /\ UNCHANGED <<observe, sessionVars, flagVars, configVars, streamVars, lifeVars, prefVars, serveVars>>

\* lines 459-530: the granted IDs are resolved, the response is built and,
\* with a ledger, the binding is recorded again
AllocateRespond(c) ==
    /\ call[c].pc = "respond"
    /\ IF VDevicesByIDsFails(vDevices, call[c].reqDeviceIDs)
       THEN Return(c, "unknown device") /\ UNCHANGED ledger
       ELSE LET uuids == UniqueDeviceIDs(VDevicesByIDs(vDevices, call[c].reqDeviceIDs))
                response == ContainerResponse(deviceListStrategyFlag, deviceIDStrategyFlag,
                                              cachedDevices, uuids)
            IN  /\ ledger' = IF vDeviceController
                             THEN Acquire(ledger, call[c].req, call[c].reqDeviceIDs)
                             ELSE ledger
                /\ call' = [call EXCEPT ![c].pc = "loop", ![c].availableIds = <<>>,
                                        ![c].reqDeviceIDs = <<>>,
                                        ![c].response = response,
                                        ![c].ops = IF vDeviceController
                                                   THEN Append(@, "acquire") ELSE @]
    /\ UNCHANGED <<observe, sessionVars, flagVars, configVars, streamVars, lifeVars, prefVars, serveVars>>

\* lines 415-418, 430: the loop takes the next container request; without
\* a ledger the requested IDs are the granted ones
AllocateNext(c, req) ==
    /\ call[c].pc = "loop"
    /\ ~AllocateIsMIG(migStrategy)
    /\ call' = [call EXCEPT ![c].pc = IF vDeviceController THEN "release" ELSE "respond",
                            ![c].req = req, ![c].ops = <<>>,
                            ![c].reqDeviceIDs = IF vDeviceController THEN <<>> ELSE req,
                            ![c].response = NoResponse,
                            ![c].repeat = (@ /\ req \in DOMAIN ledger)]
    /\ UNCHANGED <<ledger, observe, sessionVars, flagVars, configVars, streamVars, lifeVars, prefVars, serveVars>>

\* lines 415, 532: no container request is left, the call returns
AllocateReturn(c) ==
    /\ call[c].pc = "loop"
    /\ Return(c, "nil")
    /\ UNCHANGED <<ledger, observe, sessionVars, flagVars, configVars, streamVars, lifeVars, prefVars, serveVars>>

\* lines 361-364, 407-414 with no ledger: there is nothing to reconcile
AllocateBeginNoLedger(c) ==
    /\ call[c].pc \in {"idle", "done"}
    /\ ~AllocateIsMIG(migStrategy)
    /\ ~vDeviceController
    /\ call' = [call EXCEPT ![c] = [IdleCall EXCEPT !.pc = "loop"]]
    /\ UNCHANGED <<ledger, observe, sessionVars, flagVars, configVars, streamVars, lifeVars, prefVars, serveVars>>

\* lines 362-363, 330: under the mixed strategy the call is MIGAllocate's
AllocateBeginMIG(c) ==
    /\ call[c].pc \in {"idle", "done"}
    /\ AllocateIsMIG(migStrategy)
    /\ call' = [call EXCEPT ![c] = [IdleCall EXCEPT !.pc = "loop"]]
    /\ UNCHANGED <<ledger, observe, sessionVars, flagVars, configVars, streamVars, lifeVars, prefVars, serveVars>>

\* the device IDs a container request names under the mixed strategy
MIGRequests ==
    InjectiveSeqs({Devices[g].ID : g \in 1..NumDevices} \cup {UnknownID}, MaxRequest) \ {<<>>}

\* lines 331-354: one container request of MIGAllocate
MIGAllocateContainer(c, req) ==
    /\ call[c].pc = "loop"
    /\ AllocateIsMIG(migStrategy)
    /\ IF \E i \in 1..Len(req) : ~deviceExists(cachedDevices, req[i])
       THEN call' = [call EXCEPT ![c] = [IdleCall EXCEPT !.pc = "done", !.req = req,
                                                        !.err = "unknown device"]]
       ELSE call' = [call EXCEPT ![c].req = req,
                                 ![c].response = ContainerResponse(deviceListStrategyFlag,
                                                                   deviceIDStrategyFlag,
                                                                   cachedDevices, req)]
    /\ UNCHANGED <<ledger, observe, sessionVars, flagVars, configVars, streamVars, lifeVars, prefVars, serveVars>>

\* the device IDs a container request names when no ledger stands between
\* the kubelet and the devices: known or unknown ones, in any order
UnorderedRequests == InjectiveSeqs(ListedIDs, MaxRequest) \ {<<>>}

\* Allocate of a session without a Binding Ledger, under either strategy
AllocateNoLedger(c) ==
    \/ AllocateBeginNoLedger(c)
    \/ AllocateBeginMIG(c)
    \/ \E req \in UnorderedRequests : AllocateNext(c, req)
    \/ AllocateRespond(c)
    \/ \E req \in MIGRequests : MIGAllocateContainer(c, req)
    \/ AllocateReturn(c)

Allocate(c) ==
    \/ AllocateBegin(c)
    \/ AllocateCheckpointError(c)
    \/ \E req \in Requests : AllocateNext(c, req)
    \/ AllocateRelease(c)
    \/ AllocateAvailable(c)
    \/ AllocateAcquire(c)
    \/ AllocateRespond(c)
    \/ AllocateReturn(c)

(***************************************************************************)
(* GetPreferredAllocation: the handler walks the container requests; the   *)
(* state keeps the request and the response of the last one.               *)
(***************************************************************************)
\* the available IDs come in ascending or in descending order
AvailableLists == UNION {{SortedSeq(S), Reverse(SortedSeq(S))} : S \in SUBSET ListedIDs}

ContainerRequests ==
    [AvailableDeviceIDs : AvailableLists,
     MustIncludeDeviceIDs : InjectiveSeqs(ListedIDs, 1),
     AllocationSize : 0..MaxRequest]

NoRequest == [AvailableDeviceIDs |-> <<>>, MustIncludeDeviceIDs |-> <<>>, AllocationSize |-> 0]

\* pc, result, err and deviceIds (the last container response) are the
\* handler's; answered, resolved, policyCalled and allocated are history:
\* whether the last container request was answered, whether the call has
\* resolved an ID list and invoked the policy, and the policy's last
\* selection
NoPreferred ==
    [pc |-> "idle", result |-> "none", err |-> "nil", deviceIds |-> <<>>,
     answered |-> FALSE, resolved |-> FALSE, policyCalled |-> FALSE, allocated |-> <<>>]

\* lines 271-276: the call begins; under the mixed strategy it returns
\* (nil, nil) at once
GetPreferredAllocationBegin ==
    /\ prefOut.pc \in {"idle", "done"}
    /\ prefReq' = NoRequest
    /\ prefOut' = IF PreferredUnsupported(migStrategy)
                  THEN [NoPreferred EXCEPT !.pc = "done", !.result = "nil"]
                  ELSE [NoPreferred EXCEPT !.pc = "loop", !.result = "response"]
    /\ UNCHANGED <<sessionVars, flagVars, configVars, streamVars, lifeVars, allocVars, serveVars>>

\* lines 278-323: one container request
GetPreferredAllocationContainer(req) ==
    /\ prefOut.pc = "loop"
    /\ prefReq' = req
    /\ IF VDevicesByIDsFails(vDevices, req.AvailableDeviceIDs)
       THEN prefOut' = [prefOut EXCEPT !.pc = "done", !.result = "nil", !.err = "unknown device",
                                       !.resolved = TRUE, !.answered = FALSE,
                                       !.deviceIds = <<>>, !.allocated = <<>>]
       ELSE IF VDevicesByIDsFails(vDevices, req.MustIncludeDeviceIDs)
       THEN prefOut' = [prefOut EXCEPT !.pc = "done", !.result = "nil", !.err = "unknown device",
                                       !.resolved = TRUE, !.answered = FALSE,
                                       !.deviceIds = <<>>, !.allocated = <<>>]
       ELSE \E allocated \in PolicyAllocate(AvailableDevices(vDevices, req.AvailableDeviceIDs),
                                            AvailableDevices(vDevices, req.MustIncludeDeviceIDs),
                                            req.AllocationSize) :
              prefOut' = [prefOut EXCEPT !.answered = TRUE,
                                         !.resolved = TRUE, !.policyCalled = TRUE,
                                         !.allocated = allocated,
                                         !.deviceIds = ContainerDeviceIDs(vDevices, req, allocated)]
    /\ UNCHANGED <<sessionVars, flagVars, configVars, streamVars, lifeVars, allocVars, serveVars>>

\* line 325
GetPreferredAllocationReturn ==
    /\ prefOut.pc = "loop"
    /\ prefOut' = [prefOut EXCEPT !.pc = "done"]
    /\ UNCHANGED <<prefReq, sessionVars, flagVars, configVars, streamVars, lifeVars, allocVars, serveVars>>

GetPreferredAllocation ==
    \/ GetPreferredAllocationBegin
    \/ \E req \in ContainerRequests : GetPreferredAllocationContainer(req)
    \/ GetPreferredAllocationReturn

(***************************************************************************)
(* The crash-restart supervisor of Serve (the goroutine of lines 180-208). *)
(***************************************************************************)
\* the seconds that may pass between two returns of the serve call
Gaps == {1, HourSeconds, HourSeconds + 1}

\* line 194
TooManyCrashesLate(count) == count > CrashLimit + 1

TooManyCrashes(count) == count > CrashLimit

\* lines 198-206: the counter after a crash timeSinceLastCrash seconds
\* after the previous one
NextRestartCount(count, timeSinceLastCrash) ==
    IF timeSinceLastCrash > HourSeconds THEN 1 ELSE count + 1

\* lines 185-206: the serve call returns an error gap seconds after the
\* previous crash (or after the start of the supervisor)
ServeCrashes(gap) ==
    /\ supervisor = "serving"
    /\ Len(gaps) < MaxFailures
    /\ now' = now + gap
    /\ gaps' = Append(gaps, gap)
    /\ IF TooManyCrashes(restartCount)
       THEN /\ supervisor' = "fatal"
            /\ UNCHANGED <<restartCount, lastCrashTime>>
       ELSE /\ restartCount' = NextRestartCount(restartCount, now' - lastCrashTime)
            /\ lastCrashTime' = now'
            /\ supervisor' = "serving"
    /\ UNCHANGED <<sessionVars, flagVars, configVars, streamVars, lifeVars, allocVars, prefVars>>

\* a serve call returning no error handled as a crash is: counted, and
\* serve re-entered or the process ended
ServeReturnsCounted ==
    /\ supervisor = "serving"
    /\ IF TooManyCrashes(restartCount)
       THEN /\ supervisor' = "fatal"
            /\ UNCHANGED restartCount
       ELSE /\ restartCount' = restartCount + 1
            /\ supervisor' = "serving"
    /\ UNCHANGED <<lastCrashTime, now, gaps, sessionVars, flagVars, configVars, streamVars, lifeVars, allocVars, prefVars>>

\* lines 185-188: the serve call returns no error, the loop ends
ServeReturns ==
    /\ supervisor = "serving"
    /\ supervisor' = "exited"
    /\ UNCHANGED <<restartCount, lastCrashTime, now, gaps, sessionVars, flagVars, configVars, streamVars, lifeVars, allocVars, prefVars>>

Supervise ==
    \/ \E gap \in Gaps : ServeCrashes(gap)
    \/ ServeReturns

(***************************************************************************)
(* The lifecycle: Start (initialize, Serve, Register, CheckHealth), Stop   *)
(* and cleanup, called one after the other by the plugin's main loop, and  *)
(* GetDevicePluginOptions, served whenever the server serves.              *)
(***************************************************************************)
\* the steps of a Start that succeeds, in order
StartSteps == <<"initialize", "bind", "dial", "register", "health">>

NotCalled == [called |-> FALSE, value |-> FALSE]

\* line 234: the capability Register advertises
RegisterOptions(policy, controller) == policy /\ ~controller

\* line 248: the capability GetDevicePluginOptions reports
DevicePluginOptions(policy, controller) == policy

\* line 147: Start goes on to the health producer only when Register
\* returned no error
RegisterFailedNever(e) == FALSE

RegisterFailed(e) == e # "nil"

\* lines 98-115, called at line 133
StartInitialize ==
    /\ lifePc = "idle"
    /\ cachedDevices' = Devices
    /\ vDevices' = IF migStrategy = "none" THEN Device2VDevice(Devices) ELSE vDevices
    /\ vDeviceController' = IF enableLegacyPreferredFlag /\ allocatePolicy THEN TRUE
                            ELSE vDeviceController
    /\ ledger' = IF enableLegacyPreferredFlag /\ allocatePolicy THEN <<>> ELSE ledger
    /\ server' = TRUE /\ grpc' = "created"
    /\ health' = TRUE /\ stop' = TRUE /\ stopChan' = "open"
    /\ healthProducer' = FALSE
    /\ lifePc' = "serve" /\ op' = "Start" /\ err' = "nil" /\ result' = "none"
    /\ steps' = <<"initialize">>
    /\ registerResult' = "none" /\ advertised' = NotCalled /\ options' = NotCalled
    /\ vHealth' = [i \in 1..Len(vDevices') |-> "Healthy"]
    /\ UNCHANGED <<migStrategy, call, observe, prefVars, serveVars, flagVars, configVars,
                   socketFile, sub>>

\* lines 172-208, called at line 135: the stale socket file is removed and
\* the socket bound; the server is published and the supervisor launched,
\* or the bind fails and Start goes to cleanup
StartListen(e) ==
    /\ lifePc = "serve"
    /\ IF e # "nil"
       THEN /\ socketFile' = FALSE
            /\ lifePc' = "cleanup" /\ err' = e
            /\ UNCHANGED <<grpc, steps, serveVars>>
       ELSE /\ socketFile' = TRUE
            /\ grpc' = "serving"
            /\ supervisor' = "serving" /\ restartCount' = 0 /\ lastCrashTime' = now
            /\ lifePc' = "dial"
            /\ steps' = Append(steps, "bind")
            /\ UNCHANGED <<err, now, gaps>>
    /\ UNCHANGED <<sessionVars, allocVars, prefVars, flagVars, configVars, streamVars, server, health, stop,
                   stopChan, healthProducer, op, result, registerResult, advertised, options>>

\* lines 210-217, 136-140: the readiness self-dial; when it fails Start
\* goes to cleanup
StartDial(e) ==
    /\ lifePc = "dial"
    /\ IF e # "nil"
       THEN lifePc' = "cleanup" /\ err' = e /\ UNCHANGED steps
       ELSE lifePc' = "register" /\ steps' = Append(steps, "dial") /\ UNCHANGED err
    /\ UNCHANGED <<sessionVars, allocVars, prefVars, serveVars, flagVars, configVars, streamVars, server, grpc,
                   socketFile, health, stop, stopChan, healthProducer, op, result,
                   registerResult, advertised, options>>

\* lines 143-153, 221-243: Register; when it fails Start calls Stop, else
\* it launches the health producer and returns
StartRegister(e) ==
    /\ lifePc = "register"
    /\ registerResult' = e
    /\ advertised' = IF e = "dial" THEN advertised
                     ELSE [called |-> TRUE,
                           value |-> RegisterOptions(allocatePolicy, vDeviceController)]
    /\ IF RegisterFailed(e)
       THEN /\ lifePc' = "halt" /\ err' = e
            /\ steps' = Append(steps, "register")
            /\ UNCHANGED <<healthProducer, result>>
       ELSE /\ healthProducer' = TRUE
            /\ steps' = steps \o <<"register", "health">>
            /\ lifePc' = "idle" /\ result' = "nil"
            /\ UNCHANGED err
    /\ UNCHANGED <<sessionVars, allocVars, prefVars, serveVars, flagVars, configVars, streamVars, server, grpc,
                   socketFile, health, stop, stopChan, op, options>>

\* lines 157-160: Stop is called; without a server it returns at once
StopCalled ==
    /\ lifePc = "idle"
    /\ op' = "Stop" /\ err' = "nil"
    /\ IF ~server
       THEN lifePc' = "idle" /\ result' = "nil"
       ELSE lifePc' = "halt" /\ result' = "none"
    /\ UNCHANGED <<sessionVars, allocVars, prefVars, serveVars, flagVars, configVars, streamVars, server, grpc,
                   socketFile, health, stop, stopChan, healthProducer, steps, registerResult,
                   advertised, options>>

\* the outcomes of os.Remove(m.socket), line 163
RemoveErrs(exists) == IF exists THEN {"nil", "remove"} ELSE {"not exist"}

\* lines 162-165: the server is stopped (its serve call returns nil and
\* the supervisor leaves its loop) and the socket file removed; an error
\* other than "not exist" ends Stop before cleanup
StopHalt(e) ==
    /\ lifePc = "halt"
    /\ e \in RemoveErrs(socketFile)
    /\ grpc' = "stopped"
    /\ supervisor' = IF supervisor = "serving" THEN "exited" ELSE supervisor
    /\ IF e = "remove"
       THEN /\ lifePc' = "idle"
            /\ result' = IF op = "Stop" THEN e ELSE err
            /\ UNCHANGED socketFile
       ELSE /\ socketFile' = FALSE
            /\ lifePc' = "cleanup"
            /\ UNCHANGED result
    /\ UNCHANGED <<sessionVars, allocVars, prefVars, restartCount, lastCrashTime, now, gaps,
                   flagVars, configVars, streamVars, server, health, stop, stopChan, healthProducer, op, err,
                   steps, registerResult, advertised, options>>

\* lines 118-122: the ledger is dropped and the stop channel closed
CleanupClose ==
    /\ lifePc = "cleanup"
    /\ vDeviceController' = FALSE
    /\ ledger' = IF vDeviceController THEN <<>> ELSE ledger
    /\ stopChan' = "closed"
    /\ lifePc' = "release"
    /\ UNCHANGED <<migStrategy, cachedDevices, vDevices, call, observe, prefVars, serveVars,
                   flagVars, configVars, streamVars, server, grpc, socketFile, health, stop, healthProducer,
                   op, err, result, steps, registerResult, advertised, options>>

\* lines 123-127 and the return of the caller (lines 139, 148, 167)
CleanupRelease ==
    /\ lifePc = "release"
    /\ vDevices' = <<>> /\ cachedDevices' = <<>>
    /\ server' = FALSE /\ health' = FALSE /\ stop' = FALSE
    /\ lifePc' = "idle"
    /\ result' = IF op = "Stop" THEN "nil" ELSE err
    /\ UNCHANGED <<migStrategy, vDeviceController, allocVars, prefVars, serveVars, flagVars,
                   configVars, streamVars, grpc, socketFile, stopChan, healthProducer, op, err, steps,
                   registerResult, advertised, options>>

\* lines 246-251, served while the server serves
GetDevicePluginOptions ==
    /\ grpc = "serving"
    /\ options' = [called |-> TRUE, value |-> DevicePluginOptions(allocatePolicy, vDeviceController)]
    /\ UNCHANGED <<sessionVars, allocVars, prefVars, serveVars, flagVars, configVars, streamVars, server, grpc,
                   socketFile, health, stop, stopChan, healthProducer, lifePc, op, err, result,
                   steps, registerResult, advertised>>

Lifecycle ==
    \/ StartInitialize
    \/ \E e \in {"nil", "listen"} : StartListen(e)
    \/ \E e \in {"nil", "dial"} : StartDial(e)
    \/ \E e \in {"nil", "dial", "register"} : StartRegister(e)
    \/ StopCalled
    \/ \E e \in {"nil", "remove", "not exist"} : StopHalt(e)
    \/ CleanupClose
    \/ CleanupRelease
    \/ GetDevicePluginOptions

(***************************************************************************)
(* ListAndWatch (lines 254-268) and apiDevices (lines 583-596).  A list is *)
(* a slice of pointers to the session's device structs; Send serializes    *)
(* what the pointers show when it runs.  The health producer offers        *)
(* devices on m.health for as long as it runs.                             *)
(***************************************************************************)
Subscribers == 1..NumSubscribers

\* the locals of a stream: pc, pdevs (the pointers apiDevices returned), d
\* (the device received), selStop and selHealth (whether the channels the
\* select waits on are non-nil); the rest is history: whether the first
\* list is still to be sent, whether the session was up and which devices
\* were Unhealthy when the stream built its first list, and whether an
\* event was received after the session was torn down
IdleStream ==
    [pc |-> "idle", pdevs |-> <<>>, d |-> 0, selStop |-> FALSE, selHealth |-> FALSE,
     first |-> FALSE, live0 |-> FALSE, marked0 |-> {}, late |-> FALSE]

\* the physical devices marked Unhealthy
Marked(cached) == {cached[g].ID : g \in {h \in 1..Len(cached) : cached[h].Health = "Unhealthy"}}

HealthOf(cached, id) == cached[CHOOSE g \in 1..Len(cached) : cached[g].ID = id].Health

\* lines 586-589: each virtual device takes the health of its device
MirrorHealthKept(vdevs, cached, mirror) == mirror

MirrorHealth(vdevs, cached, mirror) ==
    [i \in 1..Len(mirror) |-> IF i <= Len(vdevs) THEN HealthOf(cached, vdevs[i].dev) ELSE mirror[i]]

\* lines 585-595: the pointers of the list
Pointers(strategy, vdevs, cached) ==
    IF strategy = "none" THEN [i \in 1..Len(vdevs) |-> [kind |-> "vdevice", at |-> i, ID |-> vdevs[i].ID]]
    ELSE [g \in 1..Len(cached) |-> [kind |-> "device", at |-> g, ID |-> cached[g].ID]]

\* what a pointer shows
Shown(ptr, cached, mirror) ==
    [ID |-> ptr.ID,
     Health |-> IF ptr.kind = "vdevice" THEN mirror[ptr.at] ELSE cached[ptr.at].Health]

\* lines 255 and 264, the argument: apiDevices builds the list; the stream
\* begins here when it is new
ListAndWatchList(s) ==
    /\ sub[s].pc \in {"idle", "list"}
    /\ sub[s].pc = "idle" => grpc = "serving"
    /\ vHealth' = IF migStrategy = "none" THEN MirrorHealth(vDevices, cachedDevices, vHealth)
                  ELSE vHealth
    /\ sub' = [sub EXCEPT ![s].pc = "send",
                          ![s].pdevs = Pointers(migStrategy, vDevices, cachedDevices),
                          ![s].first = IF sub[s].pc = "idle" THEN TRUE ELSE @,
                          ![s].live0 = IF sub[s].pc = "idle" THEN server ELSE @,
                          ![s].marked0 = IF sub[s].pc = "idle" THEN Marked(cachedDevices) ELSE @]
    /\ UNCHANGED <<sessionVars, allocVars, prefVars, serveVars, flagVars, configVars, lifeVars>>

\* what Send puts on the stream of s: the devices as the pointers show
\* them now
ListSent(s) == [i \in 1..Len(sub[s].pdevs) |-> Shown(sub[s].pdevs[i], cachedDevices, vHealth)]

\* lines 255 and 264, the call: Send serializes the list (a stopped server
\* sends nothing) and the handler goes on to its select
ListAndWatchSend(s) ==
    /\ sub[s].pc = "send"
    /\ sub' = [sub EXCEPT ![s].pc = "loop", ![s].pdevs = <<>>, ![s].first = FALSE]
    /\ UNCHANGED <<sessionVars, allocVars, prefVars, serveVars, flagVars, configVars, lifeVars,
                   vHealth>>

\* lines 258-260, 262: the select reads m.stop and m.health and waits
ListAndWatchSelect(s) ==
    /\ sub[s].pc = "loop"
    /\ sub' = [sub EXCEPT ![s].pc = "select", ![s].selStop = stop, ![s].selHealth = health]
    /\ UNCHANGED <<sessionVars, allocVars, prefVars, serveVars, flagVars, configVars, lifeVars,
                   vHealth>>

\* lines 260-261: the stop channel is closed, the handler returns nil
ListAndWatchStop(s) ==
    /\ sub[s].pc = "select"
    /\ sub[s].selStop /\ stopChan = "closed"
    /\ sub' = [sub EXCEPT ![s].pc = "returned"]
    /\ UNCHANGED <<sessionVars, allocVars, prefVars, serveVars, flagVars, configVars, lifeVars,
                   vHealth>>

\* cleanup has closed the stop channel and released the session
TornDown == stopChan = "closed" /\ lifePc = "idle"

\* line 262: the producer hands over the device at index g of its snapshot.
\* A select that finds both channels ready takes either; a handler waiting
\* when the stop channel is closed is woken for the stop case, so the
\* health case competes with it only until cleanup has finished
ListAndWatchHealth(s, g) ==
    /\ sub[s].pc = "select"
    /\ sub[s].selHealth /\ healthProducer
    /\ ~(sub[s].selStop /\ TornDown)
    /\ sub' = [sub EXCEPT ![s].pc = "mark", ![s].d = g,
                          ![s].late = (@ \/ TornDown)]
    /\ UNCHANGED <<sessionVars, allocVars, prefVars, serveVars, flagVars, configVars, lifeVars,
                   vHealth>>

\* line 263: d.Health = Unhealthy; once the session is released the struct
\* is no longer one of the session's
ListAndWatchMark(s) ==
    /\ sub[s].pc = "mark"
    /\ cachedDevices' = IF sub[s].d <= Len(cachedDevices)
                        THEN [cachedDevices EXCEPT ![sub[s].d].Health = "Unhealthy"]
                        ELSE cachedDevices
    /\ sub' = [sub EXCEPT ![s].pc = "list", ![s].d = 0]
    /\ UNCHANGED <<migStrategy, vDevices, vDeviceController, allocVars, prefVars, serveVars,
                   flagVars, configVars, lifeVars, vHealth>>

ListAndWatch(s) ==
    \/ ListAndWatchList(s)
    \/ ListAndWatchSend(s)
    \/ ListAndWatchSelect(s)
    \/ ListAndWatchStop(s)
    \/ \E g \in 1..NumDevices : ListAndWatchHealth(s, g)
    \/ ListAndWatchMark(s)

\* the streams of a session and the Stop that ends it
Stream ==
    \/ \E s \in Subscribers : ListAndWatch(s)
    \/ StopCalled
    \/ \E e \in {"nil", "remove", "not exist"} : StopHalt(e)
    \/ CleanupClose
    \/ CleanupRelease

(***************************************************************************)
(* Specifications.                                                         *)
(***************************************************************************)
\* initialize(), lines 98-115, under the given strategy and policy
InitSession(strategy, controller) ==
    /\ migStrategy = strategy
    /\ cachedDevices = Devices
    /\ vDevices = IF strategy = "none" THEN Device2VDevice(Devices) ELSE <<>>
    /\ vDeviceController = controller

InitAllocate ==
    /\ ledger = <<>>
    /\ call = [c \in Callers |-> IdleCall]

InitPreferred ==
    /\ prefReq = NoRequest
    /\ prefOut = NoPreferred

InitFlags(listStrategy, idStrategy) ==
    /\ deviceListStrategyFlag = listStrategy
    /\ deviceIDStrategyFlag = idStrategy

\* the fields of a session Start has brought up, under the given policy
\* and legacy flag
InitStarted(policy, legacy) ==
    /\ allocatePolicy = policy /\ enableLegacyPreferredFlag = legacy
    /\ server = TRUE /\ grpc = "serving" /\ socketFile = TRUE
    /\ health = TRUE /\ stop = TRUE /\ stopChan = "open"
    /\ healthProducer = TRUE
    /\ lifePc = "idle" /\ op = "Start" /\ err = "nil" /\ result = "nil"
    /\ steps = StartSteps
    /\ registerResult = "nil"
    /\ advertised = [called |-> TRUE, value |-> RegisterOptions(policy, policy /\ legacy)]
    /\ options = NotCalled

\* no stream is open, every virtual device shows Healthy
InitStream ==
    /\ vHealth = [i \in 1..Len(vDevices) |-> "Healthy"]
    /\ sub = [s \in Subscribers |-> IdleStream]

InitServe ==
    /\ restartCount = 0
    /\ lastCrashTime = 0
    /\ now = 0
    /\ supervisor = "serving"
    /\ gaps = <<>>

\* one Allocate call at a time
Init ==
    /\ InitSession("none", TRUE) /\ InitAllocate /\ observe = FALSE /\ InitPreferred /\ InitServe
    /\ InitFlags("envvar", "uuid") /\ InitStream /\ InitStarted(TRUE, TRUE)

Next == Allocate(1)

Spec == Init /\ [][Next]_vars

\* one Allocate call at a time, each recording the ledger it found
InitObserved ==
    /\ InitSession("none", TRUE) /\ InitAllocate /\ observe = TRUE /\ InitPreferred /\ InitServe
    /\ InitFlags("envvar", "uuid") /\ InitStream /\ InitStarted(TRUE, TRUE)

SpecObserved == InitObserved /\ [][Next]_vars

\* Allocate calls of several callers, interleaved step by step
NextConcurrent == \E c \in Callers : Allocate(c)

SpecConcurrent == Init /\ [][NextConcurrent]_vars

\* GetPreferredAllocation calls under either MIG strategy, with a policy
\* and no Binding Ledger
InitPreferredSession ==
    /\ \E strategy \in {"none", "mixed"} : InitSession(strategy, FALSE)
    /\ InitAllocate /\ observe = FALSE /\ InitPreferred /\ InitServe
    /\ InitFlags("envvar", "uuid") /\ InitStream /\ InitStarted(TRUE, FALSE)

SpecPreferred == InitPreferredSession /\ [][GetPreferredAllocation]_vars

\* the supervisor of one session
SpecServe == Init /\ [][Supervise]_vars

\* Allocate calls of a session without a Binding Ledger, under either MIG
\* strategy and every pair of device-list and device-ID strategies
InitResponse ==
    /\ \E strategy \in {"none", "mixed"} : InitSession(strategy, FALSE)
    /\ InitAllocate /\ observe = FALSE /\ InitPreferred /\ InitServe
    /\ \E listStrategy \in DeviceListStrategies, idStrategy \in DeviceIDStrategies :
          InitFlags(listStrategy, idStrategy)
    /\ InitStream /\ InitStarted(TRUE, FALSE)

SpecResponse == InitResponse /\ [][AllocateNoLedger(1)]_vars

\* the plugin as NewNvidiaDevicePlugin returns it (lines 79-95), under
\* either MIG strategy, with or without a policy and the legacy flag
InitLifecycle ==
    /\ \E strategy \in {"none", "mixed"} : migStrategy = strategy
    /\ cachedDevices = <<>> /\ vDevices = <<>> /\ vDeviceController = FALSE
    /\ InitAllocate /\ observe = FALSE /\ InitPreferred /\ InitFlags("envvar", "uuid")
    /\ restartCount = 0 /\ lastCrashTime = 0 /\ now = 0 /\ supervisor = "none" /\ gaps = <<>>
    /\ \E policy \in BOOLEAN, legacy \in BOOLEAN :
          allocatePolicy = policy /\ enableLegacyPreferredFlag = legacy
    /\ server = FALSE /\ grpc = "none" /\ socketFile = FALSE
    /\ health = FALSE /\ stop = FALSE /\ stopChan = "none"
    /\ healthProducer = FALSE
    /\ lifePc = "idle" /\ op = "none" /\ err = "nil" /\ result = "none"
    /\ steps = <<>> /\ registerResult = "none"
    /\ advertised = NotCalled /\ options = NotCalled
    /\ InitStream

SpecLifecycle == InitLifecycle /\ [][Lifecycle]_vars

\* the streams of one started session, under either MIG strategy, up to
\* and past its Stop
InitStreaming ==
    /\ \E strategy \in {"none", "mixed"} : InitSession(strategy, FALSE)
    /\ InitAllocate /\ observe = FALSE /\ InitPreferred /\ InitServe
    /\ InitFlags("envvar", "uuid") /\ InitStream /\ InitStarted(TRUE, FALSE)

SpecStream == InitStreaming /\ [][Stream]_vars

(***************************************************************************)
(* Properties of Allocate and the Binding Ledger.                          *)
(***************************************************************************)
KnownIDs == Range(VDeviceIDs(vDevices))

\* C1: under interleaved Allocate calls no virtual-device ID is in the
\* granted set of more than one ledger entry
ExclusiveBinding ==
    \A k1, k2 \in DOMAIN ledger : k1 # k2 => ledger[k1] \cap ledger[k2] = {}

\* C2: a container request for n IDs that finds at least n available is
\* granted exactly n distinct IDs, all among the available IDs as read,
\* whatever the preferred-allocation engine returned
GrantsExactlyRequested ==
    \A c \in Callers :
        /\ call[c].pc = "prefer" => Len(call[c].availableIds) >= Len(call[c].req)
        /\ call[c].pc = "respond" =>
             /\ Len(call[c].reqDeviceIDs) = Len(call[c].req)
             /\ NoDuplicates(call[c].reqDeviceIDs)
             /\ Range(call[c].reqDeviceIDs) \subseteq Range(call[c].availableIds)

\* the engine cannot return the requested number (fewer devices than
\* requested IDs) and the first available IDs were granted
FallbackGranted ==
    \E c \in Callers :
        /\ call[c].pc = "respond"
        /\ Len(AvailableDevices(vDevices, call[c].availableIds)) < Len(call[c].req)
        /\ call[c].reqDeviceIDs = SubSeq(call[c].availableIds, 1, Len(call[c].req))

\* C3: a call that fails for want of available IDs leaves the ledger as it
\* found it
NoSideEffectsOnFailure ==
    \A c \in Callers :
        (call[c].pc = "done" /\ call[c].err = "no enough devices") => ledger = call[c].entry

\* C4: a call repeating requests that are already bound releases each
\* prior binding before it acquires again, succeeds, and leaves one entry
\* under the key and as many bound IDs as it found
IdempotentRepeat ==
    \A c \in Callers :
        /\ call[c].pc \in {"available", "prefer"} => call[c].req \notin DOMAIN ledger
        /\ (call[c].pc = "done" /\ call[c].repeat /\ call[c].req # <<>>) =>
             /\ call[c].err = "nil"
             /\ call[c].req \in DOMAIN ledger
             /\ Cardinality(ledger[call[c].req]) = Len(call[c].req)
             /\ Cardinality(Bound(ledger)) = call[c].count0

\* a repeated call has returned
RepeatedCallDone ==
    \E c \in Callers :
        call[c].pc = "done" /\ call[c].repeat /\ call[c].req # <<>> /\ call[c].count0 > 0

\* C5: the IDs bound across all ledger entries are known virtual-device IDs
BoundAreKnown == Bound(ledger) \subseteq KnownIDs

\* a request naming an unknown ID has been granted
UnknownRequestBound == <<UnknownID>> \in DOMAIN ledger /\ ledger[<<UnknownID>>] # {}

\* C20: for each container request the ledger operations come in the
\* order reconcile, release, available, acquire: the call has reconciled
\* before it releases, the available IDs are read after the release and
\* before anything is acquired, and one acquire records the binding
IsPrefix(s, t) == Len(s) <= Len(t) /\ s = SubSeq(t, 1, Len(s))

LedgerProtocolOrder ==
    \A c \in Callers :
        /\ call[c].ops # <<>> => call[c].reconciled
        /\ IsPrefix(call[c].ops, <<"release", "available", "acquire">>)
        /\ (call[c].pc = "loop" /\ call[c].req # <<>>) =>
               call[c].ops = <<"release", "available", "acquire">>

(***************************************************************************)
(* Properties of GetPreferredAllocation.                                   *)
(***************************************************************************)
Answered == migStrategy # "mixed" /\ prefOut.answered

\* C6: a container request whose available list holds at least
\* AllocationSize known IDs is answered with exactly AllocationSize IDs,
\* the policy having selected nothing or exactly that many devices
PreferredExactSize ==
    (/\ Answered
     /\ Len(prefReq.AvailableDeviceIDs) >= prefReq.AllocationSize
     /\ Len(prefOut.allocated) \in {0, prefReq.AllocationSize})
    => Len(prefOut.deviceIds) = prefReq.AllocationSize

\* C7: the answer includes every must-include ID, when these are among the
\* available IDs and the policy selected every required device
PreferredIncludesRequired ==
    (/\ Answered
     /\ Range(prefReq.MustIncludeDeviceIDs) \subseteq Range(prefReq.AvailableDeviceIDs)
     /\ Range(AvailableDevices(vDevices, prefReq.MustIncludeDeviceIDs)) \subseteq Range(prefOut.allocated))
    => Range(prefReq.MustIncludeDeviceIDs) \subseteq Range(prefOut.deviceIds)

\* C8: under the mixed strategy the call returns a nil result and a nil
\* error, resolves no ID and never invokes the policy
MixedReturnsNil ==
    migStrategy = "mixed" =>
        /\ prefOut.pc \in {"idle", "done"}
        /\ prefOut.pc = "done" => (prefOut.result = "nil" /\ prefOut.err = "nil")
        /\ ~prefOut.resolved
        /\ ~prefOut.policyCalled
        /\ ~prefOut.answered

\* a call under the mixed strategy has returned
MixedCallDone == migStrategy = "mixed" /\ prefOut.pc = "done"

(***************************************************************************)
(* Properties of the crash-restart supervisor.                             *)
(***************************************************************************)
\* the first k crashes each came within the hour of the previous one
WithinTheHour(k) == \A i \in 1..k : gaps[i] <= HourSeconds

\* C9: of 7 consecutive crashes each within 3600 seconds of the previous
\* one, the first six re-enter serve and the 7th ends the process
SeventhCrashIsFatal ==
    /\ (Len(gaps) <= 6 /\ WithinTheHour(Len(gaps)) /\ supervisor # "exited") =>
           (supervisor = "serving" /\ restartCount = Len(gaps))
    /\ (Len(gaps) = 7 /\ WithinTheHour(7)) => supervisor = "fatal"

\* seven crashes within the hour of each other have happened
SevenCrashes == Len(gaps) = 7 /\ WithinTheHour(7) /\ supervisor = "fatal"

\* C10: when more than 3600 seconds pass between the 6th and the 7th
\* crash, the 7th resets the counter and serve is re-entered
LateSeventhCrashRestarts ==
    (Len(gaps) = 7 /\ WithinTheHour(6) /\ gaps[7] > HourSeconds) =>
        (supervisor = "serving" /\ restartCount = 1)

\* C21: a serve call that returns without error ends the supervisor loop
\* whatever the crash counter is, and a loop that has ended never re-enters
\* serve and never ends the process.  A step of the serving supervisor that
\* records no crash is a return without error.
CleanReturnEndsLoop ==
    [][/\ (supervisor = "serving" /\ gaps' = gaps) =>
              (supervisor' = "exited" /\ restartCount' = restartCount)
       /\ supervisor = "exited" => supervisor' = "exited"]_serveVars

\* the loop has ended on a return without error with a counter at which a
\* crash would have ended the process
EndedAtTheLimit == supervisor = "exited" /\ TooManyCrashes(restartCount)

(***************************************************************************)
(* Properties of the container response.                                   *)
(***************************************************************************)
\* a call that has built the response of its current container request
ResponseBuilt(c) == call[c].pc = "loop" /\ call[c].response # NoResponse

\* the virtual-device IDs granted to the current container request
Granted(c) ==
    IF vDeviceController
    THEN (IF call[c].req \in DOMAIN ledger THEN ledger[call[c].req] ELSE {})
    ELSE Range(call[c].req)

\* the physical devices under the granted virtual devices
GrantedDevices(c) ==
    {d \in Range(cachedDevices) :
        \E v \in Range(vDevices) : v.ID \in Granted(c) /\ v.dev = d.ID}

\* the name of a physical device under the device-ID strategy
NameOf(d) == IF deviceIDStrategyFlag = "index" THEN d.Index ELSE d.ID

ContainerPaths(c) ==
    {call[c].response.Mounts[i].ContainerPath : i \in 1..Len(call[c].response.Mounts)}

HostPaths(c) ==
    {call[c].response.Mounts[i].HostPath : i \in 1..Len(call[c].response.Mounts)}

\* C18 as stated: under volume-mounts an Allocate that grants virtual
\* devices v1, v2 mounts <root>/v1 and <root>/v2, one path per granted
\* virtual-device ID, each from /dev/null, and the variable holds <root>
MountsPerVirtualDevice ==
    \A c \in Callers :
        (ResponseBuilt(c) /\ migStrategy = "none" /\ deviceListStrategyFlag = "volume-mounts") =>
            /\ ContainerPaths(c) =
                   {<<deviceListAsVolumeMountsContainerPathRoot, v>> : v \in Granted(c)}
            /\ Len(call[c].response.Mounts) = Cardinality(Granted(c))
            /\ HostPaths(c) \subseteq {deviceListAsVolumeMountsHostPath}
            /\ call[c].response.Envs = <<deviceListAsVolumeMountsContainerPathRoot>>

\* C18 amended: under volume-mounts an Allocate that grants virtual devices
\* mounts one path per distinct physical device under them, <root>/<name>
\* with the device's name under the device-ID strategy, each from
\* /dev/null, and the variable holds <root> only
MountsPerPhysicalDevice ==
    \A c \in Callers :
        (ResponseBuilt(c) /\ migStrategy = "none" /\ deviceListStrategyFlag = "volume-mounts") =>
            /\ ContainerPaths(c) =
                   {<<deviceListAsVolumeMountsContainerPathRoot, NameOf(d)>> : d \in GrantedDevices(c)}
            /\ Len(call[c].response.Mounts) = Cardinality(GrantedDevices(c))
            /\ HostPaths(c) \subseteq {deviceListAsVolumeMountsHostPath}
            /\ call[c].response.Envs = <<deviceListAsVolumeMountsContainerPathRoot>>

\* two virtual devices of one physical device were granted and mounted
TwoVirtualOneMount ==
    \E c \in Callers :
        /\ ResponseBuilt(c) /\ migStrategy = "none"
        /\ deviceListStrategyFlag = "volume-mounts"
        /\ Cardinality(Granted(c)) = 2
        /\ Len(call[c].response.Mounts) = 1

\* the device-ID list the response was built from
DeviceIDList(c) ==
    IF deviceListStrategyFlag = "envvar" THEN call[c].response.Envs
    ELSE [i \in 1..Len(call[c].response.Mounts) |-> call[c].response.Mounts[i].ContainerPath[2]]

\* the physical identifiers granted: the requested ones under the mixed
\* strategy, those under the granted virtual devices otherwise
GrantedUUIDs(c) ==
    IF migStrategy = "mixed" THEN Range(call[c].req) ELSE {d.ID : d \in GrantedDevices(c)}

\* C19: under the index strategy the device-ID list holds the Index of
\* every granted physical ID of the cache, one entry for each, and no
\* physical identifier
IndexStrategyGivesIndexes ==
    \A c \in Callers :
        (ResponseBuilt(c) /\ deviceIDStrategyFlag = "index") =>
            LET found == {d \in Range(cachedDevices) : d.ID \in GrantedUUIDs(c)}
            IN  /\ Range(DeviceIDList(c)) = {d.Index : d \in found}
                /\ Len(DeviceIDList(c)) = Cardinality(found)
                /\ \A d \in Range(cachedDevices) : d.ID \notin Range(DeviceIDList(c))

\* a granted physical device of the cache was named by its index
IndexNamed ==
    \E c \in Callers :
        /\ ResponseBuilt(c) /\ deviceIDStrategyFlag = "index"
        /\ \E d \in Range(cachedDevices) :
               d.ID \in GrantedUUIDs(c) /\ DeviceIDList(c) = <<d.Index>>

(***************************************************************************)
(* Properties of the lifecycle.                                            *)
(***************************************************************************)
\* all session-scoped state is released
Released ==
    /\ ~server /\ ~health /\ ~stop
    /\ cachedDevices = <<>> /\ vDevices = <<>>
    /\ ~vDeviceController

\* Start has returned an error and nothing was called since
StartFailed == op = "Start" /\ lifePc = "idle" /\ result \notin {"none", "nil"}

\* C11: when Start returns an error no partial session is left: the server
\* is halted and the supervisor no longer serves, the socket file is
\* removed, the stop channel is closed, the session state is released and
\* the health producer was not launched
FailedStartLeavesNothing ==
    StartFailed =>
        /\ grpc # "serving" /\ supervisor # "serving"
        /\ ~socketFile
        /\ stopChan = "closed"
        /\ Released
        /\ ~healthProducer

\* C12: the steps of Start happen in the order initialize, bind, self-dial,
\* registration, health producer; the producer is launched only after a
\* registration that succeeded, and never by a Start that returns an error
StartStepsInOrder ==
    /\ IsPrefix(steps, StartSteps)
    /\ healthProducer => (registerResult = "nil" /\ steps = StartSteps)
    /\ StartFailed => ~healthProducer

\* a Start has gone through all its steps and returned no error
StartSucceeded ==
    /\ op = "Start" /\ lifePc = "idle" /\ result = "nil"
    /\ steps = StartSteps /\ healthProducer

\* C13: Stop on a plugin never started, after a failed Start or after a
\* Stop that succeeded returns no error and changes nothing; a Stop that
\* found a server returns with the server halted, the socket file removed
\* and the session state released
StopIdempotentAndReleases ==
    [][ /\ (/\ lifePc = "idle" /\ op' = "Stop"
            /\ \/ op = "none"
               \/ op = "Start" /\ result # "nil"
               \/ op = "Stop" /\ result = "nil")
           => /\ result' = "nil" /\ lifePc' = "idle"
              /\ UNCHANGED <<sessionVars, ledger, server, grpc, socketFile, health, stop,
                             stopChan, supervisor>>
        /\ (op = "Stop" /\ op' = "Stop" /\ lifePc # "idle" /\ lifePc' = "idle")
           => (grpc' = "stopped" /\ ~socketFile' /\ Released')
      ]_vars

\* C17: GetDevicePluginOptions reports preferred allocation exactly when a
\* policy is configured and the session has no ledger, the value Register
\* advertised for the session
OptionsMatchRegistration ==
    (options.called /\ server) =>
        /\ options.value = (allocatePolicy /\ ~vDeviceController)
        /\ advertised.called => options.value = advertised.value

(***************************************************************************)
(* Properties of ListAndWatch.                                             *)
(***************************************************************************)
\* the physical device behind a listed identifier
DeviceOfListed(id) ==
    IF migStrategy = "none" THEN VDeviceByID(Device2VDevice(Devices), id).dev ELSE id

\* the identifiers of the session's full device set, in order
FullDeviceSet ==
    IF migStrategy = "none" THEN VDeviceIDs(Device2VDevice(Devices))
    ELSE [g \in 1..NumDevices |-> Devices[g].ID]

\* stream s sends a list in this step
Sends(s) == sub[s].pc = "send" /\ sub'[s].pc = "loop" /\ grpc = "serving"

\* C14: a list sent after a device was marked Unhealthy shows the device,
\* and every virtual device on it, as Unhealthy
UnhealthyStaysListed ==
    [][\A s \in Subscribers :
          Sends(s) =>
              /\ \A i \in 1..Len(ListSent(s)) :
                     DeviceOfListed(ListSent(s)[i].ID) \in Marked(cachedDevices)
                         => ListSent(s)[i].Health = "Unhealthy"
              /\ \A id \in Marked(cachedDevices) :
                     \E i \in 1..Len(ListSent(s)) : DeviceOfListed(ListSent(s)[i].ID) = id
      ]_vars

HandlersObserveStop ==
    \A s \in Subscribers :
        /\ (TornDown /\ sub[s].pc = "select") => sub[s].selStop
        /\ ~sub[s].late

====
